---- MODULE Spec2Model ----
(***************************************************************************)
(* Model of experiments/s_test_speedup.py: main() sweeps, for every        *)
(* retained evaluation example, the grid num_samples x batch_size x        *)
(* repetition, calling one_experiment (the s_test estimator) at each grid  *)
(* point, appending the result record to output_collections and saving it  *)
(* remotely under a composite file name.                                   *)
(***************************************************************************)
EXTENDS Integers, Sequences, FiniteSets

\* ------------------------------------------------------------------ bounds
\* Largest num_examples_to_test, num_repetitions and evaluation-set length
\* explored.
MaxQuota == 2
MaxReps == 2
MaxEval == 2

\* ------------------------------------------------------- program constants
\* range(700, 1300 + 1, 100)
NumSamplesStart == 700
NumSamplesLast == 1300
NumSamplesStep == 100

\* Variant: range(700, 1300, 100), the stop value left exclusive
NumSamplesStopExclusive == NumSamplesLast

NumSamplesStop == NumSamplesLast + 1
\* [1, 2, 4, 8, 16, 32, 64, 128]
BatchSizes == <<1, 2, 4, 8, 16, 32, 64, 128>>
\* Variant: the mode check is missing, every string is accepted
AnyMode == {"only-correct", "only-incorrect", "bogus"}

\* ["only-correct", "only-incorrect"]
ValidModes == {"only-correct", "only-incorrect"}

\* Mode strings handed to main by callers: the two recognised ones and one
\* unrecognised.
Modes == ValidModes \cup {"bogus"}

\* Evaluation sets: for each example, in evaluation order, the value
\* is_prediction_correct returns for it.
EvalSets == UNION {[1..n -> BOOLEAN] : n \in 0..MaxEval}

VARIABLES
    mode,                  \* argument of main
    num_examples_to_test,  \* argument of main
    num_repetitions,       \* argument of main
    eval_dataset,          \* the evaluation set, as correctness per example
    pc,                    \* position of main
    built,                 \* model, datasets, loader and trainer constructed
    fetched,               \* examples drawn from eval_instance_data_loader
    classified,            \* calls of is_prediction_correct
    test_index,            \* enumerate index of the current example (-1: unbound)
    test_inputs,           \* device of the current example's tensors
    prediction_is_correct, \* result of is_prediction_correct for the current example
    num_examples_tested,
    num_samples, batch_size, repetition,   \* the loop variables of the grid
    estimator_calls,       \* invocations of one_experiment started
    s_test,                \* result of the last one_experiment call
    output_collections,    \* the accumulation list
    persisted,             \* completed save_and_mirror_scp_to_remote calls, in order
    error,                 \* exception that left main ("none" if none)
    returned,              \* value returned by main (meaningful when pc = "done")
    retained,              \* history: test_index values the filter let through
    skipped                \* history: test_index values the filter skipped

vars == <<mode, num_examples_to_test, num_repetitions, eval_dataset, pc, built,
          fetched, classified, test_index, test_inputs, prediction_is_correct,
          num_examples_tested, num_samples, batch_size, repetition,
          estimator_calls, s_test, output_collections, persisted, error,
          returned, retained, skipped>>

inputs == <<mode, num_examples_to_test, num_repetitions, eval_dataset>>
grid == <<num_samples, batch_size, repetition>>
history == <<retained, skipped>>

\* ------------------------------------------------------------ file naming
Digits == <<"0", "1", "2", "3", "4", "5", "6", "7", "8", "9">>

\* str(n) for a non-negative int, as the f-string formats it
RECURSIVE IntToStr(_)
IntToStr(n) ==
    IF n < 10 THEN Digits[n + 1]
    ELSE IntToStr(n \div 10) \o Digits[(n % 10) + 1]

\* Variant: the repetition is left out of the file name
FileNameNoRepetition(m, n, ti, ns, bs, r) ==
    "stest." \o m \o "." \o IntToStr(n) \o "." \o IntToStr(ti) \o "."
        \o IntToStr(ns) \o "." \o IntToStr(bs) \o ".pth"

\* f"stest.{mode}.{num_examples_to_test}.{test_index}.{num_samples}.{batch_size}.{repetition}.pth"
FileName(m, n, ti, ns, bs, r) ==
    "stest." \o m \o "." \o IntToStr(n) \o "." \o IntToStr(ti) \o "."
        \o IntToStr(ns) \o "." \o IntToStr(bs) \o "." \o IntToStr(r) \o ".pth"

\* Variant: the two continue statements test the wrong outcome
SkipsSwapped(m, correct) ==
    \/ m = "only-correct" /\ correct = TRUE
    \/ m = "only-incorrect" /\ correct = FALSE

\* ------------------------------------------------------------ the filter
\* mode == "only-correct" and prediction_is_correct is False, or
\* mode == "only-incorrect" and prediction_is_correct is True
Skips(m, correct) ==
    \/ m = "only-correct" /\ correct = FALSE
    \/ m = "only-incorrect" /\ correct = TRUE

\* ------------------------------------------------------------ the grid
IndexOfBatch(b) == CHOOSE i \in DOMAIN BatchSizes : BatchSizes[i] = b

\* The outputs dict built at a grid point; s_test and time_elapsed both
\* come from the one_experiment call just made and carry its ordinal
Outputs ==
    [test_index |-> test_index,
     num_samples |-> num_samples,
     batch_size |-> batch_size,
     repetition |-> repetition,
     s_test |-> s_test,
     time_elapsed |-> s_test,
     correct |-> prediction_is_correct]

\* ------------------------------------------------------------------ Init
Init ==
    /\ mode \in Modes
    /\ num_examples_to_test \in 0..MaxQuota
    /\ num_repetitions \in 0..MaxReps
    /\ eval_dataset \in EvalSets
    /\ pc = "start"
    /\ built = FALSE
    /\ fetched = 0
    /\ classified = 0
    /\ test_index = -1
    /\ test_inputs = "none"
    /\ prediction_is_correct = FALSE
    /\ num_examples_tested = 0
    /\ num_samples = 0
    /\ batch_size = 0
    /\ repetition = 0
    /\ estimator_calls = 0
    /\ s_test = 0
    /\ output_collections = <<>>
    /\ persisted = <<>>
    /\ error = "none"
    /\ returned = <<>>
    /\ retained = {}
    /\ skipped = {}

\* --------------------------------------------------------------- actions
\* if mode not in [...]: raise ValueError
RejectMode ==
    /\ pc = "start"
    /\ mode \notin ValidModes
    /\ pc' = "failed"
    /\ error' = "ValueError"
    /\ UNCHANGED <<history, inputs, built, fetched, classified, test_index, test_inputs,
                   prediction_is_correct, num_examples_tested, grid,
                   estimator_calls, s_test, output_collections, persisted,
                   returned>>

\* model, tokenizer, datasets, loader, trainer; the two accumulators
Setup ==
    /\ pc = "start"
    /\ mode \in ValidModes
    /\ built' = TRUE
    /\ num_examples_tested' = 0
    /\ output_collections' = <<>>
    /\ pc' = "loop"
    /\ UNCHANGED <<history, inputs, fetched, classified, test_index, test_inputs,
                   prediction_is_correct, grid, estimator_calls, s_test,
                   persisted, error, returned>>

\* Variant: the quota test is off by one (> for >=)
QuotaMetOffByOne == num_examples_tested > num_examples_to_test

\* Variant: test_index counts the retained examples only
RetainedOrdinal == num_examples_tested

\* if num_examples_tested >= num_examples_to_test
QuotaMet == num_examples_tested >= num_examples_to_test

\* the index enumerate() pairs with the example drawn next
EnumerateIndex == fetched

\* the for statement finds the loader exhausted: return output_collections
LoopExhausted ==
    /\ pc = "loop"
    /\ fetched = Len(eval_dataset)
    /\ returned' = output_collections
    /\ pc' = "done"
    /\ UNCHANGED <<history, inputs, built, fetched, classified, test_index, test_inputs,
                   prediction_is_correct, num_examples_tested, grid,
                   estimator_calls, s_test, output_collections, persisted,
                   error>>

\* the next example is drawn, the quota is met: break, return output_collections
LoopBreak ==
    /\ pc = "loop"
    /\ fetched < Len(eval_dataset)
    /\ QuotaMet
    /\ test_index' = EnumerateIndex
    /\ fetched' = fetched + 1
    /\ test_inputs' = "cpu"
    /\ returned' = output_collections
    /\ pc' = "done"
    /\ UNCHANGED <<history, inputs, built, classified, prediction_is_correct,
                   num_examples_tested, grid, estimator_calls, s_test,
                   output_collections, persisted, error>>

\* the next example is drawn, the quota is not met
LoopNext ==
    /\ pc = "loop"
    /\ fetched < Len(eval_dataset)
    /\ ~QuotaMet
    /\ test_index' = EnumerateIndex
    /\ fetched' = fetched + 1
    /\ test_inputs' = "cpu"
    /\ pc' = "classify"
    /\ UNCHANGED <<history, inputs, built, classified, prediction_is_correct,
                   num_examples_tested, grid, estimator_calls, s_test,
                   output_collections, persisted, error, returned>>

\* Variant: a skipped example is counted against the quota
SkipExampleCounted ==
    /\ pc = "classify"
    /\ Skips(mode, eval_dataset[test_index + 1])
    /\ prediction_is_correct' = eval_dataset[test_index + 1]
    /\ classified' = classified + 1
    /\ skipped' = skipped \cup {test_index}
    /\ num_examples_tested' = num_examples_tested + 1
    /\ pc' = "loop"
    /\ UNCHANGED <<retained, inputs, built, fetched, test_index, test_inputs,
                   grid, estimator_calls, s_test, output_collections,
                   persisted, error, returned>>

\* is_prediction_correct, then one of the two continue statements
SkipExample ==
    /\ pc = "classify"
    /\ Skips(mode, eval_dataset[test_index + 1])
    /\ prediction_is_correct' = eval_dataset[test_index + 1]
    /\ classified' = classified + 1
    /\ skipped' = skipped \cup {test_index}
    /\ pc' = "loop"
    /\ UNCHANGED <<retained, inputs, built, fetched, test_index, test_inputs,
                   num_examples_tested, grid, estimator_calls, s_test,
                   output_collections, persisted, error, returned>>

\* is_prediction_correct, no continue: tensors to cuda, the grid loops start
RetainExample ==
    /\ pc = "classify"
    /\ ~Skips(mode, eval_dataset[test_index + 1])
    /\ prediction_is_correct' = eval_dataset[test_index + 1]
    /\ classified' = classified + 1
    /\ retained' = retained \cup {test_index}
    /\ test_inputs' = "cuda"
    /\ num_samples' = NumSamplesStart
    /\ batch_size' = BatchSizes[1]
    /\ repetition' = 0
    /\ pc' = IF num_repetitions > 0 THEN "estimate" ELSE "counted"
    /\ UNCHANGED <<skipped, inputs, built, fetched, test_index, num_examples_tested,
                   estimator_calls, s_test, output_collections, persisted,
                   error, returned>>

\* one_experiment returns
Estimate ==
    /\ pc = "estimate"
    /\ estimator_calls' = estimator_calls + 1
    /\ s_test' = estimator_calls + 1
    /\ pc' = "record"
    /\ UNCHANGED <<history, inputs, built, fetched, classified, test_index, test_inputs,
                   prediction_is_correct, num_examples_tested, grid,
                   output_collections, persisted, error, returned>>

\* Variant: the exception of compute_s_test is caught and the call retried
EstimateFailsRetried ==
    /\ pc = "estimate"
    /\ estimator_calls' = estimator_calls + 1
    /\ error' = "EstimatorError"
    /\ pc' = "estimate"
    /\ UNCHANGED <<history, inputs, built, fetched, classified, test_index,
                   test_inputs, prediction_is_correct, num_examples_tested,
                   grid, s_test, output_collections, persisted, returned>>

\* compute_s_test raises inside one_experiment
EstimateFails ==
    /\ pc = "estimate"
    /\ estimator_calls' = estimator_calls + 1
    /\ error' = "EstimatorError"
    /\ pc' = "failed"
    /\ UNCHANGED <<history, inputs, built, fetched, classified, test_index, test_inputs,
                   prediction_is_correct, num_examples_tested, grid, s_test,
                   output_collections, persisted, returned>>

\* Variant: one outputs dict is created before the loops and updated in
\* place, so every entry of the list is the same object
RecordAliased ==
    /\ pc = "record"
    /\ output_collections' =
          [i \in 1..(Len(output_collections) + 1) |-> Outputs]
    /\ pc' = "persist"
    /\ UNCHANGED <<history, inputs, built, fetched, classified, test_index,
                   test_inputs, prediction_is_correct, num_examples_tested,
                   grid, estimator_calls, s_test, persisted, error, returned>>

\* outputs = {...}; output_collections.append(outputs)
Record ==
    /\ pc = "record"
    /\ output_collections' = Append(output_collections, Outputs)
    /\ pc' = "persist"
    /\ UNCHANGED <<history, inputs, built, fetched, classified, test_index, test_inputs,
                   prediction_is_correct, num_examples_tested, grid,
                   estimator_calls, s_test, persisted, error, returned>>

\* the three nested for statements move to the next grid point, or end
AtLastRepetition == repetition + 1 >= num_repetitions
AtLastBatch == IndexOfBatch(batch_size) = Len(BatchSizes)
AtLastSamples == num_samples + NumSamplesStep >= NumSamplesStop

\* Variant: the batch_size loop is the outer one, num_samples the middle
AdvanceBatchOuter ==
    IF ~AtLastRepetition
    THEN /\ repetition' = repetition + 1
         /\ UNCHANGED <<num_samples, batch_size>>
         /\ pc' = "estimate"
    ELSE IF ~AtLastSamples
    THEN /\ repetition' = 0
         /\ num_samples' = num_samples + NumSamplesStep
         /\ UNCHANGED batch_size
         /\ pc' = "estimate"
    ELSE IF ~AtLastBatch
    THEN /\ repetition' = 0
         /\ num_samples' = NumSamplesStart
         /\ batch_size' = BatchSizes[IndexOfBatch(batch_size) + 1]
         /\ pc' = "estimate"
    ELSE /\ UNCHANGED grid
         /\ pc' = "counted"

Advance ==
    IF ~AtLastRepetition
    THEN /\ repetition' = repetition + 1
         /\ UNCHANGED <<num_samples, batch_size>>
         /\ pc' = "estimate"
    ELSE IF ~AtLastBatch
    THEN /\ repetition' = 0
         /\ batch_size' = BatchSizes[IndexOfBatch(batch_size) + 1]
         /\ UNCHANGED num_samples
         /\ pc' = "estimate"
    ELSE IF ~AtLastSamples
    THEN /\ repetition' = 0
         /\ batch_size' = BatchSizes[1]
         /\ num_samples' = num_samples + NumSamplesStep
         /\ pc' = "estimate"
    ELSE /\ UNCHANGED grid
         /\ pc' = "counted"

\* save_and_mirror_scp_to_remote returns; the loops advance
Persist ==
    /\ pc = "persist"
    /\ persisted' = Append(persisted,
          [file_name |-> FileName(mode, num_examples_to_test, test_index,
                                  num_samples, batch_size, repetition),
           object_to_save |-> output_collections[Len(output_collections)]])
    /\ Advance
    /\ UNCHANGED <<history, inputs, built, fetched, classified, test_index, test_inputs,
                   prediction_is_correct, num_examples_tested,
                   estimator_calls, s_test, output_collections, error,
                   returned>>

\* save_and_mirror_scp_to_remote raises
PersistFails ==
    /\ pc = "persist"
    /\ error' = "TransportError"
    /\ pc' = "failed"
    /\ UNCHANGED <<history, inputs, built, fetched, classified, test_index, test_inputs,
                   prediction_is_correct, num_examples_tested, grid,
                   estimator_calls, s_test, output_collections, persisted,
                   returned>>

\* num_examples_tested += 1
CountExample ==
    /\ pc = "counted"
    /\ num_examples_tested' = num_examples_tested + 1
    /\ pc' = "loop"
    /\ UNCHANGED <<history, inputs, built, fetched, classified, test_index, test_inputs,
                   prediction_is_correct, grid, estimator_calls, s_test,
                   output_collections, persisted, error, returned>>

Next ==
    \/ RejectMode
    \/ Setup
    \/ LoopExhausted
    \/ LoopBreak
    \/ LoopNext
    \/ SkipExample
    \/ RetainExample
    \/ Estimate
    \/ EstimateFails
    \/ Record
    \/ Persist
    \/ PersistFails
    \/ CountExample

Spec == Init /\ [][Next]_vars

\* main is one thread that runs every statement it reaches
FairSpec == Spec /\ WF_vars(Next)

\* ------------------------------------------------------------ properties
\* Shorthands used by the properties below.
Finished == pc = "done"
RecordsOf(list, ti) == {i \in DOMAIN list : list[i].test_index = ti}
ExampleIndices == 0..(Len(eval_dataset) - 1)
FlagsMatchMode(list) ==
    \A i \in DOMAIN list :
        /\ mode = "only-correct" => list[i].correct = TRUE
        /\ mode = "only-incorrect" => list[i].correct = FALSE

\* C1: every record of the accumulation list, at any point of the run and
\* in the returned list, has correct = TRUE under mode "only-correct" and
\* correct = FALSE under mode "only-incorrect".
C1_FlagMatchesMode ==
    /\ FlagsMatchMode(output_collections)
    /\ Finished => FlagsMatchMode(returned)

\* C1 witness: a finished "only-incorrect" run that returned records after
\* having skipped a correctly predicted example.
C1_Witness ==
    /\ Finished
    /\ mode = "only-incorrect"
    /\ returned # <<>>
    /\ skipped # {}

\* C2: with a mode other than the two recognised strings main fails with
\* ValueError and nothing has been built, read, classified, estimated,
\* recorded or persisted.
C2_InvalidModeFailsFast ==
    mode \notin {"only-correct", "only-incorrect"} =>
        /\ pc \in {"start", "failed"}
        /\ pc = "failed" => error = "ValueError"
        /\ built = FALSE
        /\ fetched = 0
        /\ classified = 0
        /\ estimator_calls = 0
        /\ output_collections = <<>>
        /\ persisted = <<>>

\* C2 witness: main has raised on the mode "bogus".
C2_Witness == mode = "bogus" /\ pc = "failed" /\ error = "ValueError"

\* C3: in a run that completed, every retained example has exactly one
\* record for each (num_samples, batch_size, repetition) of the grid, that
\* is 7 x 8 x num_repetitions records, and every skipped example has none.
C3_SampleCounts == {700, 800, 900, 1000, 1100, 1200, 1300}
C3_BatchSizes == {1, 2, 4, 8, 16, 32, 64, 128}
C3_GridComplete ==
    Finished =>
        /\ \A ti \in retained :
            /\ Cardinality(RecordsOf(returned, ti)) = 7 * 8 * num_repetitions
            /\ \A ns \in C3_SampleCounts, bs \in C3_BatchSizes,
                 r \in 0..(num_repetitions - 1) :
                   Cardinality({i \in RecordsOf(returned, ti) :
                       /\ returned[i].num_samples = ns
                       /\ returned[i].batch_size = bs
                       /\ returned[i].repetition = r}) = 1
        /\ \A ti \in skipped : RecordsOf(returned, ti) = {}
        /\ \A i \in DOMAIN returned : returned[i].test_index \in retained

\* C3 witness: a completed run with two repetitions that retained one
\* example and skipped another.
C3_Witness ==
    /\ Finished
    /\ num_repetitions = 2
    /\ retained # {}
    /\ skipped # {}
    /\ Len(returned) = 7 * 8 * 2 * Cardinality(retained)

\* C4: once num_examples_to_test retained examples have been processed no
\* further example is classified, estimated or persisted, and the returned
\* records cover at most num_examples_to_test distinct test_index values.
C4_QuotaReached == num_examples_tested >= num_examples_to_test
C4_HaltsAtQuota ==
    /\ [][C4_QuotaReached =>
            /\ classified' = classified
            /\ estimator_calls' = estimator_calls
            /\ persisted' = persisted
            /\ output_collections' = output_collections]_vars
    /\ [](num_examples_tested <= num_examples_to_test)
    /\ [](Finished =>
            Cardinality({returned[i].test_index : i \in DOMAIN returned})
                <= num_examples_to_test)

\* C4 witness: main returned with the quota met while an example that the
\* mode would retain was still unclassified.
C4_Witness ==
    /\ Finished
    /\ num_examples_to_test > 0
    /\ num_examples_tested = num_examples_to_test
    /\ \E ti \in ExampleIndices :
          /\ ti \notin retained \cup skipped
          /\ eval_dataset[ti + 1] = (mode = "only-correct")

\* C5: in the returned list the records of one example are contiguous and
\* strictly ascending in (num_samples, batch_size, repetition), the
\* repetitions of one (num_samples, batch_size) counting up from zero.
C5_LexLess(a, b) ==
    \/ a.num_samples < b.num_samples
    \/ a.num_samples = b.num_samples /\ a.batch_size < b.batch_size
    \/ /\ a.num_samples = b.num_samples
       /\ a.batch_size = b.batch_size
       /\ a.repetition < b.repetition
C5_SamePoint(a, b) ==
    /\ a.test_index = b.test_index
    /\ a.num_samples = b.num_samples
    /\ a.batch_size = b.batch_size
C5_GridOrder ==
    Finished =>
        /\ \A i, j \in DOMAIN returned :
              (i < j /\ returned[i].test_index = returned[j].test_index) =>
                  /\ returned[i + 1].test_index = returned[i].test_index
                  /\ C5_LexLess(returned[i], returned[j])
        /\ \A i \in DOMAIN returned :
              IF i > 1 /\ C5_SamePoint(returned[i - 1], returned[i])
              THEN returned[i].repetition = returned[i - 1].repetition + 1
              ELSE returned[i].repetition = 0

\* C5 witness: a returned list holding the full grids of two examples, each
\* with two repetitions.
C5_Witness ==
    /\ Finished
    /\ num_repetitions = 2
    /\ Cardinality(retained) = 2
    /\ Len(returned) = 2 * 7 * 8 * 2

\* C6: no two persist calls of a run use the same file name, each name is
\* the one built from the six values, and distinct six-tuples give distinct
\* names (a fact about FileName alone, evaluated where main starts on an
\* empty evaluation set).
C6_Tuples ==
    {"only-correct", "only-incorrect"} \X (0..MaxQuota) \X (0..MaxEval)
        \X C3_SampleCounts \X C3_BatchSizes \X (0..MaxReps)
C6_NameOf(t) == FileName(t[1], t[2], t[3], t[4], t[5], t[6])
C6_NamesUnique ==
    /\ Cardinality({persisted[i].file_name : i \in DOMAIN persisted})
          = Len(persisted)
    /\ persisted # <<>> =>
          LET last == persisted[Len(persisted)] IN
          last.file_name =
              C6_NameOf(<<mode, num_examples_to_test,
                          last.object_to_save.test_index,
                          last.object_to_save.num_samples,
                          last.object_to_save.batch_size,
                          last.object_to_save.repetition>>)
    /\ (pc = "start" /\ eval_dataset = <<>>) =>
          Cardinality({C6_NameOf(t) : t \in C6_Tuples})
              = Cardinality(C6_Tuples)

\* C6 witness: a completed run that persisted the grids of two examples
\* with two repetitions each.
C6_Witness ==
    /\ Finished
    /\ num_repetitions = 2
    /\ Len(persisted) = 2 * 7 * 8 * 2
    /\ \E i, j \in DOMAIN persisted :
          persisted[i].object_to_save.test_index
              # persisted[j].object_to_save.test_index

\* C7: the filter step leaves the classify position towards the grid iff the
\* mode matches the computed correctness; a skip leaves the accumulation
\* list, the persisted artifacts, num_examples_tested, the estimator
\* invocations and the example's tensors unchanged.
C7_Matches ==
    \/ mode = "only-correct" /\ eval_dataset[test_index + 1] = TRUE
    \/ mode = "only-incorrect" /\ eval_dataset[test_index + 1] = FALSE
C7_SkipHasNoEffect ==
    [][pc = "classify" =>
          /\ C7_Matches <=> test_index \in retained'
          /\ ~C7_Matches <=> test_index \in skipped'
          /\ test_index \in retained' => pc' \in {"estimate", "counted"}
          /\ test_index \in skipped' =>
                /\ pc' = "loop"
                /\ output_collections' = output_collections
                /\ persisted' = persisted
                /\ num_examples_tested' = num_examples_tested
                /\ estimator_calls' = estimator_calls
                /\ test_inputs' = test_inputs]_vars

\* C7 witness: an example has just been skipped after another was retained
\* and recorded.
C7_Witness ==
    /\ pc = "loop"
    /\ test_index \in skipped
    /\ retained # {}
    /\ output_collections # <<>>
    /\ test_inputs = "cpu"

\* C8: an estimator invocation starts only when every earlier record is
\* persisted; the k-th record holds the k-th estimator result, is persisted
\* as the k-th artifact under its own name (every returned record has been
\* persisted), and no step changes or removes a record or artifact already
\* present.
C8_IsPrefix(a, b) ==
    /\ Len(a) <= Len(b)
    /\ Len(b) <= Len(a) + 1
    /\ \A i \in DOMAIN a : b[i] = a[i]
C8_OneAtATime ==
    /\ [](pc = "estimate" =>
            /\ Len(persisted) = Len(output_collections)
            /\ estimator_calls = Len(output_collections))
    /\ [](/\ Len(persisted) <= Len(output_collections)
          /\ Len(output_collections) <= Len(persisted) + 1
          /\ \A i \in DOMAIN output_collections :
                output_collections[i].s_test = i
          /\ \A i \in DOMAIN persisted :
                persisted[i].object_to_save = output_collections[i]
          /\ Finished =>
                /\ returned = output_collections
                /\ Len(persisted) = Len(returned))
    /\ [][/\ C8_IsPrefix(output_collections, output_collections')
          /\ C8_IsPrefix(persisted, persisted')
          /\ Len(output_collections') > Len(output_collections)
                => pc = "record"
          /\ Len(persisted') > Len(persisted) =>
                /\ pc = "persist"
                /\ persisted'[Len(persisted')].file_name =
                      FileName(mode, num_examples_to_test, test_index,
                               num_samples, batch_size, repetition)
                /\ persisted'[Len(persisted')].object_to_save =
                      [test_index |-> test_index,
                       num_samples |-> num_samples,
                       batch_size |-> batch_size,
                       repetition |-> repetition,
                       s_test |-> estimator_calls,
                       time_elapsed |-> estimator_calls,
                       correct |-> eval_dataset[test_index + 1]]]_vars

\* C8 witness: the estimator is about to be invoked for a grid point while
\* earlier grid points are recorded and persisted.
C8_Witness ==
    /\ pc = "estimate"
    /\ Len(persisted) >= 2
    /\ Len(persisted) = Len(output_collections)
    /\ repetition = 1

\* C9: a failure of the estimator or of the persist call ends main with
\* that failure: nothing runs after it, nothing is returned, the artifacts
\* persisted before it are kept, and an estimator failure leaves no record
\* of its grid point.
C9_FailureAborts ==
    /\ [](error # "none" => pc = "failed")
    /\ [](pc = "failed" =>
            /\ error \in {"ValueError", "EstimatorError", "TransportError"}
            /\ returned = <<>>
            /\ error = "EstimatorError" =>
                  /\ Len(output_collections) = estimator_calls - 1
                  /\ Len(persisted) = estimator_calls - 1
            /\ error = "TransportError" =>
                  /\ Len(output_collections) = estimator_calls
                  /\ Len(persisted) = estimator_calls - 1)
    /\ [][pc # "failed"]_vars
    /\ [][pc' = "failed" =>
            /\ persisted' = persisted
            /\ returned' = returned
            /\ pc = "estimate" =>
                  /\ error' = "EstimatorError"
                  /\ output_collections' = output_collections
            /\ pc = "persist" => error' = "TransportError"]_vars

\* C9 witness: the estimator has failed at a grid point after earlier grid
\* points were persisted.
C9_Witness ==
    /\ pc = "failed"
    /\ error = "EstimatorError"
    /\ Len(persisted) >= 2

\* C10: every run ends, and a run with a valid mode and at least one
\* repetition that returns has recorded exactly the first
\* min(num_examples_to_test, M) examples matching the mode, identified by
\* their position in the whole evaluation sequence, in increasing order.
C10_Matching ==
    {ti \in ExampleIndices : eval_dataset[ti + 1] = (mode = "only-correct")}
C10_FirstMatching ==
    {ti \in C10_Matching :
        Cardinality({tj \in C10_Matching : tj < ti}) < num_examples_to_test}
C10_FirstMatchingRecorded ==
    /\ <>(pc \in {"done", "failed"})
    /\ []((Finished /\ num_repetitions >= 1) =>
            /\ {returned[i].test_index : i \in DOMAIN returned}
                  = C10_FirstMatching
            /\ \A i, j \in DOMAIN returned :
                  i < j => returned[i].test_index <= returned[j].test_index)

\* C10 witness: a run returned the records of the second example alone,
\* the first having been skipped, and the set ran out before the quota.
C10_Witness ==
    /\ Finished
    /\ num_repetitions >= 1
    /\ num_examples_to_test = 2
    /\ skipped = {0}
    /\ retained = {1}
    /\ returned # <<>>
    /\ \A i \in DOMAIN returned : returned[i].test_index = 1

====
